---- MODULE Spec2Model ----
(***************************************************************************)
(* Model of the TSP ID extractors of ReconFY-backend-stripe:               *)
(*   src/python/pdf_processor.py         TspIdExtractor (layout + boundary) *)
(*   src/python/pdf_processor_pypdf2.py  first-match strategy               *)
(*   src/python/working_pdf_processor.py its six-digit pattern              *)
(*                                                                         *)
(* Text is a sequence of items.  An item is one character, except for     *)
(* three items that stand for a fixed run of letters (the two parts of the *)
(* heading and a ten-letter filler word); Width gives the number of        *)
(* characters an item stands for, so len() is the sum of the widths.       *)
(* Real-valued scores are kept as exact integers: confidences in           *)
(* thousandths, position and total scores over a common denominator.       *)
(***************************************************************************)
EXTENDS Integers, Sequences, FiniteSets, TLC

(***************************************************************************)
(* Characters                                                              *)
(***************************************************************************)
AsciiDigits == {"0", "1", "2", "3", "4", "5", "6", "7", "8", "9"}
\* the fullwidth digits U+FF10..U+FF19 (category Nd), written w0..w9
WideDigits == {"w0", "w1", "w2", "w3", "w4", "w5", "w6", "w7", "w8", "w9"}
SP == " "
\* a letter
LETTER == "x"
\* '.', '/' or ':' : neither a word character nor whitespace
DOT == "."
SUMMARY == "Summary of VIDAPAY"
CHARGES == "Charges and Payments"
\* a word of ten letters
WORD10 == "abcdefghij"

\* str.isdigit() and \d of a str pattern: any decimal digit of Unicode
IsDigit(c) == c \in AsciiDigits \cup WideDigits
\* \w of a str pattern: letters, digits, underscore
IsWord(c) == IsDigit(c) \/ c \in {LETTER, SUMMARY, CHARGES, WORD10}
IsSpace(c) == c = SP
\* the value int() gives a digit
DigitVal(c) ==
  CASE c \in {"0", "w0"} -> 0 [] c \in {"1", "w1"} -> 1 [] c \in {"2", "w2"} -> 2
    [] c \in {"3", "w3"} -> 3 [] c \in {"4", "w4"} -> 4 [] c \in {"5", "w5"} -> 5
    [] c \in {"6", "w6"} -> 6 [] c \in {"7", "w7"} -> 7 [] c \in {"8", "w8"} -> 8
    [] c \in {"9", "w9"} -> 9
Width(c) == CASE c = SUMMARY -> 18 [] c = CHARGES -> 20 [] c = WORD10 -> 10 [] OTHER -> 1

\* the number of items of a text; len() of a string of digits
NLen(n) == Len(n)

\* len(text): the number of characters
RECURSIVE StrLen(_)
StrLen(t) == IF t = <<>> THEN 0 ELSE Width(Head(t)) + StrLen(Tail(t))

RECURSIVE LStrip(_)
LStrip(t) == IF t # <<>> /\ IsSpace(Head(t)) THEN LStrip(Tail(t)) ELSE t

RECURSIVE RStrip(_)
RStrip(t) ==
  IF t # <<>> /\ IsSpace(t[NLen(t)]) THEN RStrip(SubSeq(t, 1, NLen(t) - 1)) ELSE t

\* str.strip()
Strip(t) == RStrip(LStrip(t))

\* "Summary of VIDAPAY" in text
ContainsPartial(t) == \E i \in DOMAIN t : t[i] = SUMMARY
\* "Summary of VIDAPAY Charges and Payments" in text
ContainsExact(t) ==
  \E i \in DOMAIN t :
    /\ i + 2 \in DOMAIN t
    /\ t[i] = SUMMARY /\ t[i + 1] = SP /\ t[i + 2] = CHARGES

(***************************************************************************)
(* Regular expressions  \b(\d{lo,hi})\b  as re.findall evaluates them      *)
(***************************************************************************)
\* \b at the gap before position i (1-based; i = N+1 is the end)
WordBoundaryAt(t, i) ==
  LET before == i > 1 /\ IsWord(t[i - 1])
      after == i <= NLen(t) /\ IsWord(t[i])
  IN before # after

AllDigits(t, i, k) ==
  /\ i + k - 1 <= NLen(t)
  /\ \A j \in i..(i + k - 1) : IsDigit(t[j])

\* the lengths k in lo..hi for which \b\d{k}\b matches at i
MatchLens(t, i, lo, hi) ==
  {k \in lo..hi : WordBoundaryAt(t, i) /\ AllDigits(t, i, k) /\ WordBoundaryAt(t, i + k)}

SetMax(S) == CHOOSE x \in S : \A y \in S : y <= x

RECURSIVE FindAllFrom(_, _, _, _)
\* re.findall: leftmost matches, greedy quantifier, scanning resumes after a match
FindAllFrom(t, i, lo, hi) ==
  IF i > NLen(t) THEN <<>>
  ELSE LET ks == MatchLens(t, i, lo, hi) IN
       IF ks = {} THEN FindAllFrom(t, i + 1, lo, hi)
       ELSE LET k == SetMax(ks) IN
            <<SubSeq(t, i, i + k - 1)>> \o FindAllFrom(t, i + k, lo, hi)

FindAll(t, lo, hi) == FindAllFrom(t, 1, lo, hi)

(***************************************************************************)
(* Candidate Validator                                                     *)
(***************************************************************************)
min_tsp_id_length == 6
max_tsp_id_length == 8

RECURSIVE IntOf(_)
\* int(number) for a string of decimal digits
IntOf(n) ==
  IF n = <<>> THEN 0
  ELSE 10 * IntOf(SubSeq(n, 1, NLen(n) - 1)) + DigitVal(n[NLen(n)])

\* faulty variant: the YYYYMMDD branch is missing
is_likely_date_SixOnly(number) ==
  /\ NLen(number) = 6
  /\ IntOf(SubSeq(number, 1, 2)) \in 1..12
  /\ IntOf(SubSeq(number, 3, 4)) \in 1..31

is_likely_date(number) ==
  IF NLen(number) = 6
  THEN LET month == IntOf(SubSeq(number, 1, 2))
           day == IntOf(SubSeq(number, 3, 4))
           year == IntOf(SubSeq(number, 5, 6))
       IN 1 <= month /\ month <= 12 /\ 1 <= day /\ day <= 31 /\ 0 <= year /\ year <= 99
  ELSE IF NLen(number) = 8
  THEN LET year == IntOf(SubSeq(number, 1, 4))
           month == IntOf(SubSeq(number, 5, 6))
           day == IntOf(SubSeq(number, 7, 8))
       IN 1900 <= year /\ year <= 2100 /\ 1 <= month /\ month <= 12 /\ 1 <= day /\ day <= 31
  ELSE FALSE

is_likely_zip_code(number) ==
  IF NLen(number) = 5
  THEN 501 <= IntOf(number) /\ IntOf(number) <= 99950
  ELSE IF NLen(number) = 9
  THEN 50100000 <= IntOf(number) /\ IntOf(number) <= 999509999
  ELSE FALSE

\* faulty variant: the phone rule does not look at the length
is_valid_tsp_id_candidate_PhoneAnyLength(number, context_text) ==
  IF ~(min_tsp_id_length <= NLen(number) /\ NLen(number) <= max_tsp_id_length) THEN FALSE
  ELSE IF IntOf(number) < 100000 THEN FALSE
  ELSE IF Head(number) \in {"0", "1"} THEN FALSE
  ELSE IF is_likely_date(number) THEN FALSE
  ELSE IF is_likely_zip_code(number) THEN FALSE
  ELSE IF StrLen(Strip(context_text)) > 50 THEN FALSE
  ELSE TRUE

\* the rules in the order of the code; each `return False` ends the evaluation
is_valid_tsp_id_candidate(number, context_text) ==
  IF ~(min_tsp_id_length <= NLen(number) /\ NLen(number) <= max_tsp_id_length) THEN FALSE
  ELSE IF IntOf(number) < 100000 THEN FALSE
  ELSE IF NLen(number) \in {10, 11} /\ Head(number) \in {"0", "1"} THEN FALSE
  ELSE IF is_likely_date(number) THEN FALSE
  ELSE IF is_likely_zip_code(number) THEN FALSE
  ELSE IF StrLen(Strip(context_text)) > 50 THEN FALSE
  ELSE TRUE

(***************************************************************************)
(* Position Scorer.  A score s is kept as the integer s * PosDen.          *)
(***************************************************************************)
PAGE_W == 612
PAGE_H == 792
PosDen == 2 * PAGE_W * PAGE_H

\* ((1 - x0/612) + (1 - y0/792)) / 2; 0.5 when the unpacking of bbox fails
calculate_position_score(bbox) ==
  IF NLen(bbox) # 4 THEN PAGE_W * PAGE_H
  ELSE (PAGE_W - bbox[1]) * PAGE_H + (PAGE_H - bbox[2]) * PAGE_W

(***************************************************************************)
(* Candidate Harvester                                                     *)
(***************************************************************************)
RECURSIVE CandidatesOfNumbers(_, _, _)
\* the loop `for number in numbers` over one span
CandidatesOfNumbers(numbers, text, bbox) ==
  IF numbers = <<>> THEN <<>>
  ELSE (IF is_valid_tsp_id_candidate(Head(numbers), text)
        THEN <<[number |-> Head(numbers), text |-> text, bbox |-> bbox,
                position_score |-> calculate_position_score(bbox)]>>
        ELSE <<>>)
       \o CandidatesOfNumbers(Tail(numbers), text, bbox)

CandidatesOfSpan(span) ==
  LET text == Strip(span.text)
  IN CandidatesOfNumbers(FindAll(text, 6, 8), text, span.bbox)

RECURSIVE CandidatesOfSpans(_)
CandidatesOfSpans(spans) ==
  IF spans = <<>> THEN <<>>
  ELSE CandidatesOfSpan(Head(spans)) \o CandidatesOfSpans(Tail(spans))

RECURSIVE extract_tsp_id_candidates(_)
\* blocks without "lines" (images) are skipped
extract_tsp_id_candidates(header_blocks) ==
  IF header_blocks = <<>> THEN <<>>
  ELSE (IF Head(header_blocks).lines THEN CandidatesOfSpans(Head(header_blocks).spans) ELSE <<>>)
       \o extract_tsp_id_candidates(Tail(header_blocks))

(***************************************************************************)
(* Candidate Selector.  A total score s is kept as s * 10 * PosDen.        *)
(***************************************************************************)
\* None, and every other value `if x:` takes for false, is the empty sequence
None == <<>>

LengthBonus10(number) ==
  CASE NLen(number) = 6 -> 3 [] NLen(number) = 7 -> 2 [] NLen(number) = 8 -> 1 [] OTHER -> 0

ContextBonus10(text) ==
  IF StrLen(Strip(text)) <= 20 THEN 3 ELSE IF StrLen(Strip(text)) <= 30 THEN 2 ELSE 1

\* 0.4 * position_score + length bonus + context bonus
CandidateScore(candidate) ==
  4 * candidate.position_score
    + (LengthBonus10(candidate.number) + ContextBonus10(candidate.text)) * PosDen

RECURSIVE ScoreAll(_)
ScoreAll(candidates) ==
  IF candidates = <<>> THEN <<>>
  ELSE <<[number |-> Head(candidates).number, score |-> CandidateScore(Head(candidates)),
          position_score |-> Head(candidates).position_score]>>
       \o ScoreAll(Tail(candidates))

RECURSIVE InsertDesc_Unstable(_, _)
\* faulty variant: x overtakes the elements of equal score
InsertDesc_Unstable(x, sorted) ==
  IF sorted = <<>> THEN <<x>>
  ELSE IF Head(sorted).score <= x.score THEN <<x>> \o sorted
  ELSE <<Head(sorted)>> \o InsertDesc_Unstable(x, Tail(sorted))

RECURSIVE InsertDesc(_, _)
\* x goes before the first element with a smaller score: equal scores keep their order
InsertDesc(x, sorted) ==
  IF sorted = <<>> THEN <<x>>
  ELSE IF Head(sorted).score < x.score THEN <<x>> \o sorted
  ELSE <<Head(sorted)>> \o InsertDesc(x, Tail(sorted))

RECURSIVE SortByScoreFrom(_, _)
SortByScoreFrom(rest, sorted) ==
  IF rest = <<>> THEN sorted
  ELSE SortByScoreFrom(Tail(rest), InsertDesc(Head(rest), sorted))

\* list.sort(key=score, reverse=True): stable
SortByScore(scored) == SortByScoreFrom(scored, <<>>)

select_best_candidate(candidates) ==
  IF candidates = <<>> THEN None
  ELSE IF NLen(candidates) = 1 THEN candidates[1].number
  ELSE SortByScore(ScoreAll(candidates))[1].number

(***************************************************************************)
(* Header-Boundary Locator, Header-Region Filter, Fallback, Confidence     *)
(***************************************************************************)
RECURSIVE SpansOf(_)
\* the spans of the page in document order (the loops over blocks, lines, spans)
SpansOf(blocks) ==
  IF blocks = <<>> THEN <<>>
  ELSE (IF Head(blocks).lines THEN Head(blocks).spans ELSE <<>>) \o SpansOf(Tail(blocks))

RECURSIVE BoundaryOfSpans(_)
BoundaryOfSpans(spans) ==
  IF spans = <<>> THEN None
  ELSE LET text == Strip(Head(spans).text)
           bbox == Head(spans).bbox
       IN IF ContainsExact(text) THEN <<bbox[2], bbox[4]>>
          ELSE IF ContainsPartial(text) THEN <<bbox[2], bbox[4]>>
          ELSE BoundaryOfSpans(Tail(spans))

RECURSIVE BoundaryExactOnly(_)
BoundaryExactOnly(spans) ==
  IF spans = <<>> THEN None
  ELSE IF ContainsExact(Strip(Head(spans).text))
       THEN <<Head(spans).bbox[2], Head(spans).bbox[4]>>
       ELSE BoundaryExactOnly(Tail(spans))

\* faulty variant: the partial heading is not looked for
find_summary_boundary_ExactOnly(text_dict) == BoundaryExactOnly(SpansOf(text_dict))

find_summary_boundary(text_dict) == BoundaryOfSpans(SpansOf(text_dict))

RECURSIVE BlocksAbove(_, _)
\* blocks with lines whose top y is strictly above the heading's top y
BlocksAbove(blocks, summary_y) ==
  IF blocks = <<>> THEN <<>>
  ELSE (IF Head(blocks).lines /\ Head(blocks).bbox[2] < summary_y THEN <<Head(blocks)>> ELSE <<>>)
       \o BlocksAbove(Tail(blocks), summary_y)

RECURSIVE InsertByTop(_, _)
\* x goes before the first block that starts lower: equal tops keep their order
InsertByTop(x, sorted) ==
  IF sorted = <<>> THEN <<x>>
  ELSE IF x.bbox[2] < Head(sorted).bbox[2] THEN <<x>> \o sorted
  ELSE <<Head(sorted)>> \o InsertByTop(x, Tail(sorted))

RECURSIVE SortByTopFrom(_, _)
SortByTopFrom(rest, sorted) ==
  IF rest = <<>> THEN sorted
  ELSE SortByTopFrom(Tail(rest), InsertByTop(Head(rest), sorted))

\* header_blocks.sort(key=top y): stable
SortByTop(blocks) == SortByTopFrom(blocks, <<>>)

\* the candidates _extract_from_header_section hands to the selector
HeaderCandidates(text_dict, summary_boundary) ==
  extract_tsp_id_candidates(SortByTop(BlocksAbove(text_dict, summary_boundary[1])))

extract_from_header_section(text_dict, summary_boundary) ==
  LET candidates == HeaderCandidates(text_dict, summary_boundary)
  IN IF candidates = <<>> THEN None ELSE select_best_candidate(candidates)

\* faulty variant: the length bonus is missing
calculate_confidence_NoBonus(tsp_id, method) ==
  CASE method = "position_based" -> 980 [] method = "fallback" -> 850 [] OTHER -> 950

\* confidences are thousandths
calculate_confidence(tsp_id, method) ==
  LET base == CASE method = "position_based" -> 980 [] method = "fallback" -> 850 [] OTHER -> 950
      bonus == CASE NLen(tsp_id) = 6 -> 10 [] NLen(tsp_id) = 7 -> 5 [] NLen(tsp_id) = 8 -> 2
                 [] OTHER -> 0
      c == base + bonus
  IN IF c > 1000 THEN 1000 ELSE IF c < 0 THEN 0 ELSE c

RECURSIVE AllText(_)
\* all_text += span["text"] + " "
AllText(spans) ==
  IF spans = <<>> THEN <<>> ELSE Head(spans).text \o <<SP>> \o AllText(Tail(spans))

\* faulty variant: the tokens are not validated
ValidOnly_NoFilter(tokens) == tokens

RECURSIVE ValidOnly(_)
\* [c for c in candidates if self._is_valid_tsp_id_candidate(c, "")]
ValidOnly(tokens) ==
  IF tokens = <<>> THEN <<>>
  ELSE (IF is_valid_tsp_id_candidate(Head(tokens), <<>>) THEN <<Head(tokens)>> ELSE <<>>)
       \o ValidOnly(Tail(tokens))

FallbackTokens(text_dict) == FindAll(AllText(SpansOf(text_dict)), 6, 8)

SuccessResult(tsp_id, confidence, method, description, extraction_method, accuracy) ==
  [tspId |-> tsp_id, confidence |-> confidence, method |-> method, page |-> 1,
   description |-> description, extraction_method |-> extraction_method,
   accuracy |-> accuracy]

ErrorResult(message) == [error |-> message]

fallback_extraction(text_dict) ==
  LET valid_candidates == ValidOnly(FallbackTokens(text_dict))
  IN IF valid_candidates # <<>>
     THEN SuccessResult(valid_candidates[1], 850, "fallback_extraction",
                        "found using fallback method", "PyMuPDF Fallback", "85%")
     ELSE ErrorResult("No TSP ID found using fallback method")

\* lines 54-73: the boundary path once the heading is found
PositionBasedResult(text_dict, summary_boundary) ==
  LET tsp_id == extract_from_header_section(text_dict, summary_boundary)
  IN IF tsp_id # None
     THEN SuccessResult(tsp_id, calculate_confidence(tsp_id, "position_based"),
                        "position_based_extraction",
                        "found in header section using position analysis",
                        "PyMuPDF Layout Analysis", "100%")
     ELSE ErrorResult("No TSP ID found in header section")

(***************************************************************************)
(* Page layouts the PDF collaborator can return (page.get_text("dict")).   *)
(* A text block's bbox is the union of the bboxes of its spans.            *)
(***************************************************************************)
MaxSpans == 3

T_exact == <<SUMMARY, SP, CHARGES>>
T_partial == <<SUMMARY>>
T_tsp == <<LETTER, LETTER, LETTER, SP, "1", "6", "4", "0", "8", "2">>
T_date == <<"0", "2", "0", "1", "2", "5">>
T_wide == <<"w1", "w2", "w3", "w4", "w5", "w6", "w7">>
T_eight == <<SP, "1", "2", "3", "4", "5", "6", "7", "8">>
T_long == <<WORD10, WORD10, WORD10, WORD10, WORD10, SP, "2", "3", "4", "5", "6", "7">>

MkSpan(text, top) == [text |-> text, bbox |-> <<72, top, 540, top + 12>>]
\* an image block has no "lines"
ImageItem == [text |-> <<>>, bbox |-> <<0, 0, 0, 0>>]
\* the spans a page is made of: headings at two heights, identifiers and
\* look-alikes above the lower heading, one identifier level with it
PageItems ==
  {MkSpan(T_exact, 300), MkSpan(T_partial, 100),
   MkSpan(T_tsp, 100), MkSpan(T_tsp, 300),
   MkSpan(T_date, 100), MkSpan(T_wide, 100), MkSpan(T_eight, 100), MkSpan(T_long, 100),
   ImageItem}

Min(a, b) == IF a < b THEN a ELSE b
Max(a, b) == IF a > b THEN a ELSE b

TextBlock(span) == [lines |-> TRUE, bbox |-> span.bbox, spans |-> <<span>>]
ImageBlock == [lines |-> FALSE, bbox |-> <<72, 200, 540, 260>>, spans |-> <<>>]
AddSpan(block, span) ==
  [lines |-> TRUE,
   bbox |-> <<Min(block.bbox[1], span.bbox[1]), Min(block.bbox[2], span.bbox[2]),
              Max(block.bbox[3], span.bbox[3]), Max(block.bbox[4], span.bbox[4])>>,
   spans |-> Append(block.spans, span)]

RECURSIVE MkBlocks(_, _, _, _)
\* items[i..] laid out after `blocks`; breaks[i] starts a new block at item i
MkBlocks(items, breaks, i, blocks) ==
  IF i > Len(items) THEN blocks
  ELSE IF items[i] = ImageItem THEN MkBlocks(items, breaks, i + 1, Append(blocks, ImageBlock))
  ELSE IF blocks = <<>> \/ breaks[i] \/ ~blocks[Len(blocks)].lines
       THEN MkBlocks(items, breaks, i + 1, Append(blocks, TextBlock(items[i])))
       ELSE MkBlocks(items, breaks, i + 1,
                     SubSeq(blocks, 1, Len(blocks) - 1)
                       \o <<AddSpan(blocks[Len(blocks)], items[i])>>)

\* the page made of `items`, with a new block wherever `breaks` says so
Layout(items, breaks) == MkBlocks(items, breaks, 1, <<>>)

(***************************************************************************)
(* TspIdExtractor.extract_tsp_id_from_pdf, one call                        *)
(***************************************************************************)
VARIABLES
  pc,               \* position in extract_tsp_id_from_pdf
  doc,              \* "unbound" (not in locals()), "open", "closed"
  text_dict,        \* the layout of page 0, once read
  summary_boundary, \* None or <<y0, y1>>
  candidates,       \* the candidates harvested in the header section
  result,           \* the value of the pending `return`
  outcome,          \* "running", "returned", "raised"
  trace,            \* the steps taken, in order
  val,              \* one call of _is_valid_tsp_id_candidate: arguments and result
  sel,              \* one call of _select_best_candidate: argument and result
  fm,               \* one run of pdf_processor_pypdf2.main
  ft,               \* one page text given to both flat-text extractors, and what each returns
  ps                \* one call of _calculate_position_score: argument and result

vars == <<pc, doc, text_dict, summary_boundary, candidates, result, outcome, trace,
          val, sel, fm, ft, ps>>
\* the variables of the other specifications
pure == <<val, sel, fm, ft, ps>>
call == <<pc, doc, text_dict, summary_boundary, candidates, result, outcome, trace>>

NoResult == [unset |-> TRUE]
Idle == [idle |-> TRUE]

InitCall ==
  /\ pc = "open"
  /\ doc = "unbound"
  /\ text_dict = <<>>
  /\ summary_boundary = None
  /\ candidates = <<>>
  /\ result = NoResult
  /\ outcome = "running"
  /\ trace = <<>>

Init == InitCall /\ val = Idle /\ sel = Idle /\ fm = Idle /\ ft = Idle /\ ps = Idle

\* `except Exception as e: return {"error": ...}`, then the finally clause
Except(step) ==
  /\ result' = ErrorResult("PDF processing error")
  /\ pc' = "finally"
  /\ trace' = trace \o <<step, "except">>

\* doc = fitz.open(pdf_path)
Open ==
  /\ UNCHANGED pure
  /\ pc = "open"
  /\ \/ /\ doc' = "open"
        /\ pc' = "len"
        /\ trace' = Append(trace, "open")
        /\ UNCHANGED result
     \/ /\ Except("open_failed")
        /\ UNCHANGED doc
  /\ UNCHANGED <<text_dict, summary_boundary, candidates, outcome>>

\* if len(doc) == 0: return {"error": "Empty PDF document"}
PageCount ==
  /\ UNCHANGED pure
  /\ pc = "len"
  /\ \E n \in 0..1 :
       IF n = 0
       THEN /\ result' = ErrorResult("Empty PDF document")
            /\ pc' = "finally"
       ELSE /\ pc' = "page"
            /\ UNCHANGED result
  /\ trace' = Append(trace, "len")
  /\ UNCHANGED <<doc, text_dict, summary_boundary, candidates, outcome>>

\* page = doc[0]
LoadPage ==
  /\ UNCHANGED pure
  /\ pc = "page"
  /\ \/ /\ pc' = "get_text"
        /\ trace' = Append(trace, "page")
        /\ UNCHANGED result
     \/ Except("page_failed")
  /\ UNCHANGED <<doc, text_dict, summary_boundary, candidates, outcome>>

\* text_dict = page.get_text("dict")
GetText ==
  /\ UNCHANGED pure
  /\ pc = "get_text"
  /\ \/ /\ \E n \in 0..MaxSpans :
             \E items \in [1..n -> PageItems], breaks \in [1..n -> BOOLEAN] :
               text_dict' = Layout(items, breaks)
        /\ pc' = "boundary"
        /\ trace' = Append(trace, "get_text")
        /\ UNCHANGED result
     \/ /\ Except("get_text_failed")
        /\ UNCHANGED text_dict
  /\ UNCHANGED <<doc, summary_boundary, candidates, outcome>>

\* summary_boundary = self._find_summary_boundary(text_dict)
FindBoundary ==
  /\ UNCHANGED pure
  /\ pc = "boundary"
  /\ summary_boundary' = find_summary_boundary(text_dict)
  /\ pc' = IF summary_boundary' = None THEN "fallback" ELSE "header"
  /\ trace' = Append(trace, "boundary")
  /\ UNCHANGED <<doc, text_dict, candidates, result, outcome>>

\* return self._fallback_extraction(text_dict)
Fallback ==
  /\ UNCHANGED pure
  /\ pc = "fallback"
  /\ result' = fallback_extraction(text_dict)
  /\ pc' = "finally"
  /\ trace' = Append(trace, "fallback")
  /\ UNCHANGED <<doc, text_dict, summary_boundary, candidates, outcome>>

\* lines 54-73
HeaderSection ==
  /\ UNCHANGED pure
  /\ pc = "header"
  /\ candidates' = HeaderCandidates(text_dict, summary_boundary)
  /\ result' = PositionBasedResult(text_dict, summary_boundary)
  /\ pc' = "finally"
  /\ trace' = Append(trace, "header")
  /\ UNCHANGED <<doc, text_dict, summary_boundary, outcome>>

\* faulty variant: the finally clause never closes
DocInLocals_Never(d) == FALSE

\* 'doc' in locals()
DocInLocals(d) == d # "unbound"

\* finally: if 'doc' in locals(): doc.close()
\* an exception of close() leaves the finally clause and replaces the return
Finally ==
  /\ UNCHANGED pure
  /\ pc = "finally"
  /\ pc' = "done"
  /\ IF DocInLocals(doc)
     THEN /\ trace' = Append(trace, "close")
          /\ \/ /\ doc' = "closed"
                /\ outcome' = "returned"
                /\ UNCHANGED result
             \/ /\ outcome' = "raised"
                /\ result' = NoResult
                /\ UNCHANGED doc
     ELSE /\ outcome' = "returned"
          /\ UNCHANGED <<doc, result, trace>>
  /\ UNCHANGED <<text_dict, summary_boundary, candidates>>

Next ==
  \/ Open
  \/ PageCount
  \/ LoadPage
  \/ GetText
  \/ FindBoundary
  \/ Fallback
  \/ HeaderSection
  \/ Finally

Spec == Init /\ [][Next]_vars

(***************************************************************************)
(* _is_valid_tsp_id_candidate alone, over digit strings and contexts       *)
(***************************************************************************)
MaxNumLen == 8
DigitAlphabet == {"0", "1", "2", "3"}

\* the examples the documentation names, the edges of the rules, fullwidth digits
SampleNumbers ==
  {<<"0", "2", "0", "1", "2", "5">>, <<"2", "0", "2", "5", "0", "2", "0", "1">>, <<"1", "6", "4", "0", "8", "2">>,
   <<"9", "0", "2", "1", "0">>, <<"9", "0", "2", "1", "0", "1", "2", "3", "4">>, <<"0", "9", "9", "9", "9", "9">>,
   <<"1", "2", "3", "2", "9", "9">>, <<"1", "3", "0", "1", "9", "9">>, <<"1", "8", "9", "9", "1", "2", "3", "1">>,
   <<"1", "9", "0", "0", "0", "1", "0", "1">>, <<"2", "1", "0", "1", "0", "1", "0", "1">>, <<"0", "0", "0", "9", "9", "9", "9", "9">>,
   <<"0", "1", "0", "0", "0", "0", "0">>, T_wide, <<"w0", "w2", "w0", "w1", "w2", "w5">>,
   <<"0", "0", "5", "0", "1">>, <<"0", "1", "2", "3", "4", "5", "6", "7", "8">>,
   <<"1", "5", "5", "5", "1", "2", "3", "4", "5", "6">>,
   <<"0", "1", "5", "5", "5", "1", "2", "3", "4", "5", "6">>,
   <<"5", "5", "5", "1", "2", "3", "4", "5", "6", "7">>}

C_empty == <<>>
C_50 == <<SP, WORD10, WORD10, WORD10, WORD10, WORD10, SP>>
C_51 == <<WORD10, WORD10, WORD10, WORD10, WORD10, LETTER>>
Contexts == {C_empty, C_50, C_51}

InitValid == Init

Validate ==
  /\ val = Idle
  /\ \E context_text \in Contexts :
       \/ \E n \in 0..MaxNumLen : \E number \in [1..n -> DigitAlphabet] :
            val' = [number |-> number, context_text |-> context_text,
                    accepted |-> is_valid_tsp_id_candidate(number, context_text)]
       \/ \E number \in SampleNumbers :
            val' = [number |-> number, context_text |-> context_text,
                    accepted |-> is_valid_tsp_id_candidate(number, context_text)]
  /\ UNCHANGED <<call, sel, fm, ft, ps>>

SpecValid == InitValid /\ [][Validate]_vars

(***************************************************************************)
(* _select_best_candidate alone, over lists of harvested candidates        *)
(***************************************************************************)
MaxCands == 3

S_164082 == <<"1", "6", "4", "0", "8", "2">>
S_555123 == <<"5", "5", "5", "1", "2", "3">>
S_seven == <<"1", "2", "3", "4", "5", "6", "7">>
S_27 == <<WORD10, WORD10, SP, "1", "6", "4", "0", "8", "2">>
S_37 == <<WORD10, WORD10, WORD10, SP, "5", "5", "5", "1", "2", "3">>
S_21 == <<WORD10, LETTER, LETTER, SP, "1", "2", "3", "4", "5", "6", "7", "8">>

\* spans whose candidates differ in length, context and position; a shift of
\* 306 points to the right costs exactly one step (0.1) of a bonus
CandSpans ==
  {[text |-> t, bbox |-> <<x0, 100, x0 + 60, 112>>] :
     t \in {S_164082, S_555123, S_seven, T_eight, S_27, S_37, S_21}, x0 \in {72, 378}}

CandPool == {CandidatesOfSpan(s)[1] : s \in {x \in CandSpans : CandidatesOfSpan(x) # <<>>}}

InitSelect == Init

Select ==
  /\ sel = Idle
  /\ \E n \in 0..MaxCands : \E cs \in [1..n -> CandPool] :
       sel' = [candidates |-> cs, best |-> select_best_candidate(cs)]
  /\ UNCHANGED <<call, val, fm, ft, ps>>

SpecSelect == InitSelect /\ [][Select]_vars

(***************************************************************************)
(* The First-Match strategy: pdf_processor_pypdf2.py                       *)
(***************************************************************************)
RECURSIVE FirstOfLength6_Truncating(_)
\* faulty variant: a longer run is cut to its first six digits
FirstOfLength6_Truncating(numeric_matches) ==
  IF numeric_matches = <<>> THEN None
  ELSE IF NLen(Head(numeric_matches)) >= 6
       THEN SubSeq(Head(numeric_matches), 1, 6)
       ELSE FirstOfLength6_Truncating(Tail(numeric_matches))

RECURSIVE FirstOfLength6(_)
\* for num in numeric_matches: if len(num) == 6 and num.isdigit(): return num
FirstOfLength6(numeric_matches) ==
  IF numeric_matches = <<>> THEN None
  ELSE IF NLen(Head(numeric_matches)) = 6
            /\ \A i \in DOMAIN Head(numeric_matches) : IsDigit(Head(numeric_matches)[i])
       THEN Head(numeric_matches)
       ELSE FirstOfLength6(Tail(numeric_matches))

\* faulty variant: the first numeric string, whatever its length
extract_tsp_id_smart_FirstMatch(page_text) ==
  IF FindAll(page_text, 1, NLen(page_text)) = <<>> THEN None
  ELSE FindAll(page_text, 1, NLen(page_text))[1]

\* re.findall(r'\b(\d+)\b', page_text), then the first match of length 6
extract_tsp_id_smart(page_text) == FirstOfLength6(FindAll(page_text, 1, NLen(page_text)))

MaxWords == 3

W_2077 == <<"2", "0", "7", "7">>
W_date == <<"0", "6", DOT, "0", "2", DOT, "2", "0", "2", "5">>
W_money == <<"1", "2", "3", "4", "5", "6", DOT, "7", "8">>
W_nine == <<"2", "7", "9", "4", "4", "1", "6", "6", "3">>
W_ref == <<LETTER, LETTER, LETTER>>
W_glued == <<LETTER, "5", "5", "5", "1", "2", "3">>
W_clock == <<"6", DOT, "1", "2", "3", "4", "5", "6">>
PageWords ==
  {W_2077, W_date, W_money, W_nine, W_ref, W_glued, W_clock, S_164082,
   <<"w1", "w2", "w3", "w4", "w5", "w6">>}

RECURSIVE JoinWords(_)
JoinWords(words) ==
  IF words = <<>> THEN <<>>
  ELSE IF Len(words) = 1 THEN words[1]
  ELSE words[1] \o <<SP>> \o JoinWords(Tail(words))


ErrorEnvelope(message, method, processingTime) ==
  [success |-> FALSE, error |-> message,
   results |-> [tspId |-> None, confidence |-> 0, method |-> method, description |-> message,
                accuracy |-> "0%", extractedText |-> <<>>,
                processingTime |-> processingTime, library |-> "PyMuPDF"]]

SuccessEnvelope(tsp_id) ==
  [success |-> TRUE,
   results |-> [tspId |-> tsp_id, confidence |-> 1000, method |-> "smart_extraction_pymupdf",
                description |-> "Smart logic: First 6-digit number (TSP ID criteria)",
                accuracy |-> "100%", extractedText |-> tsp_id,
                processingTime |-> "fast", library |-> "PyMuPDF"]]

\* the envelope of the final handler (lines 206-223)
UnexpectedEnvelope ==
  [success |-> FALSE, error |-> "Unexpected error", details |-> "Unexpected error",
   results |-> [tspId |-> None, confidence |-> 0, method |-> "error",
                description |-> "Unexpected error", accuracy |-> "0%", extractedText |-> <<>>,
                processingTime |-> "error", library |-> "PyMuPDF"]]

FmStart ==
  [pc |-> "args", doc |-> "unbound", page_text |-> <<>>, result |-> NoResult,
   printed |-> <<>>, trace |-> <<>>]

InitFirst == InitCall /\ val = Idle /\ sel = Idle /\ fm = FmStart /\ ft = Idle /\ ps = Idle

\* print(json.dumps(result)); return
FmPrintAndReturn(envelope, step) ==
  fm' = [fm EXCEPT !.pc = "exit", !.printed = Append(@, envelope),
                   !.trace = Append(@, step)]

\* result = {...}, control falls through to the print of line 204
FmResult(envelope, step) ==
  fm' = [fm EXCEPT !.pc = "print", !.result = envelope, !.trace = Append(@, step)]

\* the handler of line 186
FmExcept(step) == FmResult(ErrorEnvelope("PDF processing error", "error", "error"), step)

\* if len(sys.argv) != 2
FmCheckArgs ==
  /\ fm # Idle /\ fm.pc = "args"
  /\ \/ FmPrintAndReturn(ErrorEnvelope("Invalid arguments", "error", "error"), "bad_args")
     \/ fm' = [fm EXCEPT !.pc = "exists", !.trace = Append(@, "args")]
  /\ UNCHANGED <<call, val, sel, ft, ps>>

\* if not Path(pdf_path).exists(); an exception of exists() (a directory that
\* may not be searched) is outside the inner try and reaches the final handler
FmCheckFile ==
  /\ fm # Idle /\ fm.pc = "exists"
  /\ \/ FmPrintAndReturn(ErrorEnvelope("File not found", "error", "error"), "no_file")
     \/ FmPrintAndReturn(UnexpectedEnvelope, "unexpected")
     \/ fm' = [fm EXCEPT !.pc = "import", !.trace = Append(@, "exists")]
  /\ UNCHANGED <<call, val, sel, ft, ps>>

\* import fitz
FmImport ==
  /\ fm # Idle /\ fm.pc = "import"
  /\ \/ FmPrintAndReturn(ErrorEnvelope("PyMuPDF import failed", "error", "error"),
                         "import_failed")
     \/ fm' = [fm EXCEPT !.pc = "open", !.trace = Append(@, "import")]
  /\ UNCHANGED <<call, val, sel, ft, ps>>

\* doc = fitz.open(pdf_path)
FmOpen ==
  /\ fm # Idle /\ fm.pc = "open"
  /\ \/ fm' = [fm EXCEPT !.pc = "page_count", !.doc = "open", !.trace = Append(@, "open")]
     \/ FmExcept("open_failed")
  /\ UNCHANGED <<call, val, sel, ft, ps>>

\* if not doc.page_count: result = {"No pages found in PDF"}
FmPageCount ==
  /\ fm # Idle /\ fm.pc = "page_count"
  /\ \E n \in 0..1 :
       IF n = 0
       THEN FmResult(ErrorEnvelope("No pages found in PDF", "error", "error"), "no_pages")
       ELSE fm' = [fm EXCEPT !.pc = "load_page", !.trace = Append(@, "page_count")]
  /\ UNCHANGED <<call, val, sel, ft, ps>>

\* first_page = doc.load_page(0)
FmLoadPage ==
  /\ fm # Idle /\ fm.pc = "load_page"
  /\ \/ fm' = [fm EXCEPT !.pc = "get_text", !.trace = Append(@, "load_page")]
     \/ FmExcept("load_page_failed")
  /\ UNCHANGED <<call, val, sel, ft, ps>>

\* page_text = first_page.get_text()
FmGetText ==
  /\ fm # Idle /\ fm.pc = "get_text"
  /\ \/ \E n \in 0..MaxWords : \E ws \in [1..n -> PageWords] :
          fm' = [fm EXCEPT !.pc = "close", !.page_text = JoinWords(ws),
                           !.trace = Append(@, "get_text")]
     \/ FmExcept("get_text_failed")
  /\ UNCHANGED <<call, val, sel, ft, ps>>

\* doc.close()
FmClose ==
  /\ fm # Idle /\ fm.pc = "close"
  /\ \/ fm' = [fm EXCEPT !.pc = "extract", !.doc = "closed", !.trace = Append(@, "close")]
     \/ FmExcept("close_failed")
  /\ UNCHANGED <<call, val, sel, ft, ps>>

\* faulty variant: the result of the extraction is not tested
FmEnvelopeOf_Unchecked(page_text) ==
  IF page_text = <<>>
  THEN ErrorEnvelope("No text content found in PDF", "error", "error")
  ELSE SuccessEnvelope(extract_tsp_id_smart(page_text))

\* lines 137-184
FmEnvelopeOf(page_text) ==
  IF page_text = <<>>
  THEN ErrorEnvelope("No text content found in PDF", "error", "error")
  ELSE IF extract_tsp_id_smart(page_text) # None
  THEN SuccessEnvelope(extract_tsp_id_smart(page_text))
  ELSE ErrorEnvelope("No TSP ID found with smart logic", "smart_extraction_pymupdf", "fast")

FmExtract ==
  /\ fm # Idle /\ fm.pc = "extract"
  /\ FmResult(FmEnvelopeOf(fm.page_text), "extract")
  /\ UNCHANGED <<call, val, sel, ft, ps>>

\* json_output = json.dumps(result); print(json_output)
FmPrint ==
  /\ fm # Idle /\ fm.pc = "print"
  /\ FmPrintAndReturn(fm.result, "print")
  /\ UNCHANGED <<call, val, sel, ft, ps>>

NextFirst ==
  \/ FmCheckArgs
  \/ FmCheckFile
  \/ FmImport
  \/ FmOpen
  \/ FmPageCount
  \/ FmLoadPage
  \/ FmGetText
  \/ FmClose
  \/ FmExtract
  \/ FmPrint

SpecFirst == InitFirst /\ [][NextFirst]_vars

(***************************************************************************)
(* The two flat-text extractors on the same page text:                     *)
(* extract_tsp_id_smart and the pattern of working_pdf_processor.main      *)
(***************************************************************************)
\* matches = re.findall(r'\b\d{6}\b', page_text); matches[0] if matches
simple_regex_first(page_text) ==
  IF FindAll(page_text, 6, 6) # <<>> THEN FindAll(page_text, 6, 6)[1] ELSE None

InitFlat == Init

FlatText ==
  /\ ft = Idle
  /\ \E n \in 0..MaxWords : \E ws \in [1..n -> PageWords] :
       ft' = [page_text |-> JoinWords(ws),
              smart |-> extract_tsp_id_smart(JoinWords(ws)),
              simple |-> simple_regex_first(JoinWords(ws))]
  /\ UNCHANGED <<call, val, sel, fm, ps>>

SpecFlat == InitFlat /\ [][FlatText]_vars

(***************************************************************************)
(* _calculate_position_score alone, over the bounding boxes a span can     *)
(* carry: on the page, beyond its right and bottom edges (a page larger    *)
(* than 612 x 792), left of and above its origin, and malformed ones       *)
(***************************************************************************)
Coords == {-792, -1, 0, 72, 306, 612, 613, 792, 793, 1224, 1584}
\* boxes `x0, y0, x1, y1 = bbox` cannot unpack
MalformedBoxes == {<<>>, <<72, 100, 132>>, <<72, 100, 132, 112, 0>>}

InitScore == Init

Score ==
  /\ ps = Idle
  /\ \/ \E x0 \in Coords, y0 \in Coords :
          ps' = [bbox |-> <<x0, y0, x0 + 60, y0 + 12>>,
                 position_score |-> calculate_position_score(<<x0, y0, x0 + 60, y0 + 12>>)]
     \/ \E bbox \in MalformedBoxes :
          ps' = [bbox |-> bbox, position_score |-> calculate_position_score(bbox)]
  /\ UNCHANGED <<call, val, sel, fm, ft>>

SpecScore == InitScore /\ [][Score]_vars

(***************************************************************************)
(* Vocabulary of the properties                                            *)
(***************************************************************************)
Occurs(step) == \E i \in DOMAIN trace : trace[i] = step
Precedes(a, b) == \E i, j \in DOMAIN trace : i < j /\ trace[i] = a /\ trace[j] = b
\* the call has computed its result (and may still have to close the document)
Computed == pc \in {"finally", "done"} /\ outcome # "raised"
\* page 0's layout was read
Readable == Occurs("get_text")
IsSuccess(r) == DOMAIN r = {"tspId", "confidence", "method", "page", "description",
                            "extraction_method", "accuracy"}
IsFailure(r) == DOMAIN r = {"error"}
\* some span of the page contains the heading, in full or in its short form
HeadingPresent ==
  \E i \in DOMAIN SpansOf(text_dict) :
    \E k \in DOMAIN SpansOf(text_dict)[i].text : SpansOf(text_dict)[i].text[k] = SUMMARY

\* the validator as the documentation states it
DateShaped(n) ==
  \/ /\ Len(n) = 6
     /\ 10 * DigitVal(n[1]) + DigitVal(n[2]) \in 1..12
     /\ 10 * DigitVal(n[3]) + DigitVal(n[4]) \in 1..31
  \/ /\ Len(n) = 8
     /\ 1000 * DigitVal(n[1]) + 100 * DigitVal(n[2]) + 10 * DigitVal(n[3]) + DigitVal(n[4])
          \in 1900..2100
     /\ 10 * DigitVal(n[5]) + DigitVal(n[6]) \in 1..12
     /\ 10 * DigitVal(n[7]) + DigitVal(n[8]) \in 1..31
\* a string of 6 to 8 digits below 100000 has only zeros before its last five digits
Below100000(n) == \A i \in 1..(Len(n) - 5) : DigitVal(n[i]) = 0
TrimmedLength(c) ==
  LET inner == {i \in DOMAIN c : c[i] # SP}
  IN IF inner = {} THEN 0
     ELSE LET lo == CHOOSE i \in inner : \A j \in inner : i <= j
              hi == CHOOSE i \in inner : \A j \in inner : j <= i
          IN StrLen(SubSeq(c, lo, hi))
Rejected(n, c) ==
  \/ Len(n) < 6
  \/ Len(n) > 8
  \/ Below100000(n)
  \/ DateShaped(n)
  \/ TrimmedLength(c) > 50

(***************************************************************************)
(* C1: on the boundary path every harvested candidate comes from a span    *)
(* whose top y is strictly less than the top y of the heading.             *)
(* Refuted: the filter looks at the top of the block, not of the span.     *)
(***************************************************************************)
C1_CandidatesAboveHeading ==
  Occurs("header") =>
    \A i \in DOMAIN candidates : candidates[i].bbox[2] < summary_boundary[1]

(***************************************************************************)
(* C2: the three tiers.  As claimed: the fallback runs exactly when no     *)
(* span contains the heading and only after the boundary lookup; a failure *)
(* result for a readable document comes only after the fallback ran and    *)
(* accepted no token; a position_based_extraction success needs a heading. *)
(***************************************************************************)
FallbackFoundNothing ==
  /\ Occurs("fallback")
  /\ \A i \in DOMAIN FallbackTokens(text_dict) : Rejected(FallbackTokens(text_dict)[i], <<>>)

HeaderFoundNothing ==
  /\ HeadingPresent
  /\ Occurs("header")
  /\ ~Occurs("fallback")
  /\ candidates = <<>>

TiersInOrder ==
  /\ Occurs("fallback") => Precedes("boundary", "fallback")
  /\ Occurs("header") => Precedes("boundary", "header")
  /\ (Readable /\ Computed) => (Occurs("fallback") <=> ~HeadingPresent)
  /\ (Computed /\ IsSuccess(result) /\ result.method = "position_based_extraction")
       => HeadingPresent /\ Occurs("header")

DocSteps == {"len", "page", "page_failed", "get_text", "get_text_failed"}
Closes == {i \in DOMAIN trace : trace[i] = "close"}

C3_ClosedExactlyOnce ==
  /\ Cardinality(Closes) <= 1
  /\ \A i \in Closes : \A j \in DOMAIN trace : j > i => trace[j] \notin DocSteps \cup {"open"}
  /\ (pc = "done" /\ Occurs("open")) => Cardinality(Closes) = 1
  /\ Occurs("open_failed") => Closes = {} /\ doc = "unbound"
  /\ Closes # {} => Occurs("open")
  /\ (pc # "done" /\ Occurs("open")) => doc = "open" /\ Closes = {}

C3_Witness ==
  /\ pc = "done"
  /\ Occurs("open") /\ Occurs("except")
  /\ Cardinality(Closes) = 1
  /\ doc = "closed"

(***************************************************************************)
(* C5: a call returns exactly one record, a success payload or a failure   *)
(* payload, whatever step fails; no exception reaches the caller.          *)
(* Refuted: an exception of doc.close() in the finally clause propagates.  *)
(***************************************************************************)
C5_AlwaysReturnsOneShape ==
  pc = "done" => /\ outcome = "returned"
                 /\ IsSuccess(result) \/ IsFailure(result)
                 /\ IsSuccess(result) => result.page = 1

(***************************************************************************)
(* C6: the selector returns nothing for an empty list, the only candidate  *)
(* of a one-element list, and otherwise a candidate of maximal score       *)
(* 0.4 * position + length bonus + context bonus, the earliest harvested   *)
(* among those of maximal score.                                           *)
(***************************************************************************)
\* the score as documented, times 10 * PosDen
DocumentedScore(c) ==
  LET n == Len(c.number)
      k == TrimmedLength(c.text)
      length_bonus == IF n = 6 THEN 3 ELSE IF n = 7 THEN 2 ELSE IF n = 8 THEN 1 ELSE 0
      context_bonus == IF k <= 20 THEN 3 ELSE IF k <= 30 THEN 2 ELSE 1
  IN 4 * c.position_score + length_bonus * PosDen + context_bonus * PosDen

EarliestMaximum(cs, i) ==
  /\ \A j \in DOMAIN cs : DocumentedScore(cs[j]) <= DocumentedScore(cs[i])
  /\ \A j \in 1..(i - 1) : DocumentedScore(cs[j]) < DocumentedScore(cs[i])

C7_ValidatorRules ==
  val # Idle => (val.accepted <=> ~Rejected(val.number, val.context_text))

\* 18991231 is no date (the year is below 1900) and the context, once trimmed,
\* is exactly 50 characters long
C7_Witness ==
  /\ val # Idle
  /\ val.number = <<"1", "8", "9", "9", "1", "2", "3", "1">>
  /\ val.context_text = C_50
  /\ val.accepted

(***************************************************************************)
(* C8: every returned identifier is a string of 6 to 8 ASCII digits of     *)
(* value at least 100000 that is not date-shaped, and every harvested      *)
(* candidate has 6 to 8 digits.                                            *)
(* Refuted: \d and int() take any decimal digit of Unicode.                *)
(***************************************************************************)
C8_ReturnedIdIsAsciiAndValid ==
  /\ (Computed /\ IsSuccess(result)) =>
       /\ Len(result.tspId) \in 6..8
       /\ \A i \in DOMAIN result.tspId : result.tspId[i] \in AsciiDigits
       /\ ~Below100000(result.tspId)
       /\ ~DateShaped(result.tspId)
  /\ \A i \in DOMAIN candidates : Len(candidates[i].number) \in 6..8

(***************************************************************************)
(* C9: without a heading the fallback returns the first word-bounded run   *)
(* of 6 to 8 digits of the page text (the span texts, each followed by a   *)
(* space) that the validator accepts with an empty context, with method    *)
(* fallback_extraction and confidence 0.85; with no such run it fails.     *)
(***************************************************************************)
RECURSIVE JoinedText(_)
JoinedText(spans) ==
  IF Len(spans) = 0 THEN <<>>
  ELSE JoinedText(SubSeq(spans, 1, Len(spans) - 1)) \o spans[Len(spans)].text \o <<SP>>

\* [i, j] is a maximal run of digits of t with no word character on either side
WordBoundedRun(t, i, j) ==
  /\ i <= j
  /\ \A k \in i..j : IsDigit(t[k])
  /\ i = 1 \/ ~IsWord(t[i - 1])
  /\ j = Len(t) \/ ~IsWord(t[j + 1])

AcceptedRuns(t) ==
  {r \in {<<i, i + k - 1>> : i \in DOMAIN t, k \in 6..8} :
     /\ r[2] <= Len(t)
     /\ WordBoundedRun(t, r[1], r[2])
     /\ ~Rejected(SubSeq(t, r[1], r[2]), <<>>)}

C9_FallbackFirstAccepted ==
  (Occurs("fallback") /\ Computed) =>
    LET t == JoinedText(SpansOf(text_dict))
        runs == AcceptedRuns(t)
    IN IF runs = {} THEN IsFailure(result)
       ELSE LET first == CHOOSE r \in runs : \A q \in runs : r[1] <= q[1]
            IN /\ IsSuccess(result)
               /\ result.tspId = SubSeq(t, first[1], first[2])
               /\ result.method = "fallback_extraction"
               /\ result.confidence = 850

\* the page starts with a date, which is passed over, and the identifier
\* sits in a span of 57 characters
C9_Witness ==
  /\ pc = "done" /\ outcome = "returned"
  /\ Occurs("fallback")
  /\ Len(FallbackTokens(text_dict)) >= 2
  /\ FallbackTokens(text_dict)[1] = T_date
  /\ SpansOf(text_dict)[2].text = T_long
  /\ IsSuccess(result)
  /\ result.tspId = <<"2", "3", "4", "5", "6", "7">>

(***************************************************************************)
(* C10: as claimed, the confidence of every success is the calculator's    *)
(* value: 0.98 (boundary) or 0.85 (fallback) plus the length bonus,        *)
(* clamped to [0, 1].  In thousandths.                                     *)
(***************************************************************************)
DocumentedConfidence(id, base) ==
  LET bonus == IF Len(id) = 6 THEN 10 ELSE IF Len(id) = 7 THEN 5 ELSE IF Len(id) = 8 THEN 2 ELSE 0
  IN Min(1000, Max(0, base + bonus))

BoundarySuccess == Computed /\ IsSuccess(result) /\ result.method = "position_based_extraction"
FallbackSuccess == Computed /\ IsSuccess(result) /\ result.method = "fallback_extraction"

C10_ConfidenceFromCalculator ==
  /\ BoundarySuccess => result.confidence = DocumentedConfidence(result.tspId, 980)
  /\ FallbackSuccess => result.confidence = DocumentedConfidence(result.tspId, 850)

\* C10 as amended: a boundary success carries the calculator's value, 0.98
\* plus the length bonus; a fallback success carries the fixed 0.85, with no
\* length bonus.
C10_ConfidenceByMethod ==
  /\ (Computed /\ IsSuccess(result)) => BoundarySuccess \/ FallbackSuccess
  /\ BoundarySuccess => result.confidence = DocumentedConfidence(result.tspId, 980)
  /\ FallbackSuccess => result.confidence = 850

C10_Witness ==
  /\ pc = "done" /\ outcome = "returned"
  /\ FallbackSuccess
  /\ Len(result.tspId) = 7
  /\ result.confidence = 850

(***************************************************************************)
(* C4: in the First-Match main, once the document was opened, it has been  *)
(* closed by the time the envelope is printed, on every path.              *)
(* Refuted: only the path that read the page text closes the document.     *)
(***************************************************************************)
C4_ClosedBeforePrint ==
  (fm # Idle /\ fm.printed # <<>> /\ \E i \in DOMAIN fm.trace : fm.trace[i] = "open")
    => fm.doc = "closed"

(***************************************************************************)
(* C11: as claimed, extract_tsp_id_smart returns the first maximal run of  *)
(* digits of the page text whose length is exactly 6, and nothing when     *)
(* the text has no such run; runs of another length are passed over.       *)
(* Refuted: a run of six digits that touches a letter is passed over too.  *)
(***************************************************************************)
\* [i, j] is a run of digits of t with no digit on either side
MaximalDigitRun(t, i, j) ==
  /\ i <= j /\ j <= Len(t)
  /\ \A k \in i..j : IsDigit(t[k])
  /\ i = 1 \/ ~IsDigit(t[i - 1])
  /\ j = Len(t) \/ ~IsDigit(t[j + 1])

FirstStart(starts) == CHOOSE i \in starts : \A j \in starts : i <= j

C11_FirstMaximalRunOfSix ==
  ft # Idle =>
    LET t == ft.page_text
        starts == {i \in DOMAIN t : MaximalDigitRun(t, i, i + 5)}
    IN IF starts = {} THEN ft.smart = None
       ELSE ft.smart = SubSeq(t, FirstStart(starts), FirstStart(starts) + 5)

\* C11 as amended: extract_tsp_id_smart returns the first run of exactly six
\* digits that has no word character (letter, digit, underscore) on either
\* side, and nothing when the text has no such run.
C11_FirstWordBoundedRunOfSix ==
  ft # Idle =>
    LET t == ft.page_text
        starts == {i \in DOMAIN t : i + 5 <= Len(t) /\ WordBoundedRun(t, i, i + 5)}
    IN IF starts = {} THEN ft.smart = None
       ELSE ft.smart = SubSeq(t, FirstStart(starts), FirstStart(starts) + 5)

\* six digits glued to a letter, then nine digits, then the identifier
C11_Witness ==
  /\ ft # Idle
  /\ ft.page_text = JoinWords(<<W_glued, W_nine, S_164082>>)
  /\ ft.smart = S_164082

(***************************************************************************)
(* C12: the run extract_tsp_id_smart returns is never joined by '.', '/'   *)
(* or ':' to further digits, before it or after it.                        *)
(* Refuted: \b holds between a digit and a '.', so 123456 of 123456.78 is  *)
(* a match of length 6.                                                    *)
(***************************************************************************)
\* position i of t is a '.', '/' or ':' with a digit on its far side
JoinsDigitsBefore(t, i) == i - 1 >= 1 /\ t[i] = DOT /\ IsDigit(t[i - 1])
JoinsDigitsAfter(t, i) == i + 1 <= Len(t) /\ t[i] = DOT /\ IsDigit(t[i + 1])

C12_CleanStandaloneRun ==
  (ft # Idle /\ ft.smart # None) =>
    LET t == ft.page_text
        starts == {i \in DOMAIN t : i + 5 <= Len(t) /\ WordBoundedRun(t, i, i + 5)
                                      /\ SubSeq(t, i, i + 5) = ft.smart}
        i == FirstStart(starts)
    IN /\ ~(i > 1 /\ JoinsDigitsBefore(t, i - 1))
       /\ ~(i + 6 <= Len(t) /\ JoinsDigitsAfter(t, i + 6))

(***************************************************************************)
(* C13: every exit path of the First-Match main prints exactly one         *)
(* envelope; success is true exactly when results.tspId is a string of six *)
(* digits, and then confidence is 1.0 and there is no error field;         *)
(* otherwise success is false, an error is present, tspId is null and      *)
(* confidence is 0.0.  An empty page text gives a failure envelope.        *)
(***************************************************************************)
SixDigitString(id) == Len(id) = 6 /\ \A i \in DOMAIN id : IsDigit(id[i])

EnvelopeShape(e) ==
  /\ e.success <=> SixDigitString(e.results.tspId)
  /\ e.success => e.results.confidence = 1000 /\ "error" \notin DOMAIN e
  /\ ~e.success => /\ "error" \in DOMAIN e
                   /\ e.results.tspId = None
                   /\ e.results.confidence = 0

FmOccurs(step) == \E i \in DOMAIN fm.trace : fm.trace[i] = step

C13_OneEnvelopeOfOneShape ==
  fm # Idle =>
    /\ Len(fm.printed) = (IF fm.pc = "exit" THEN 1 ELSE 0)
    /\ \A i \in DOMAIN fm.printed : EnvelopeShape(fm.printed[i])
    /\ (fm.pc = "exit" /\ FmOccurs("extract") /\ fm.page_text = <<>>)
         => ~fm.printed[1].success /\ fm.printed[1].error = "No text content found in PDF"

\* the page holds a short number and a date before the identifier
C13_Witness ==
  /\ fm # Idle /\ fm.pc = "exit"
  /\ fm.page_text = JoinWords(<<W_2077, W_date, S_164082>>)
  /\ Len(fm.printed) = 1
  /\ fm.printed[1].success
  /\ fm.printed[1].results.tspId = S_164082

(***************************************************************************)
(* C14: the exact heading has priority over the partial one: when some     *)
(* span contains "Summary of VIDAPAY Charges and Payments" the boundary is *)
(* that of the first such span, even after a span that holds only          *)
(* "Summary of VIDAPAY"; the partial heading counts only when no span has  *)
(* the exact one, and nothing is found only when neither occurs.           *)
(* Refuted: one pass over the spans, and the first span that matches       *)
(* either way ends it.                                                     *)
(***************************************************************************)
HasPartialHeading(t) == \E k \in DOMAIN t : t[k] = SUMMARY
HasExactHeading(t) ==
  \E k \in DOMAIN t : k + 2 <= Len(t) /\ t[k] = SUMMARY /\ t[k + 1] = SP /\ t[k + 2] = CHARGES
VerticalExtent(span) == <<span.bbox[2], span.bbox[4]>>

C14_ExactHeadingFirst ==
  Occurs("boundary") =>
    LET spans == SpansOf(text_dict)
        exact == {i \in DOMAIN spans : HasExactHeading(spans[i].text)}
        partial == {i \in DOMAIN spans : HasPartialHeading(spans[i].text)}
    IN IF exact # {} THEN summary_boundary = VerticalExtent(spans[FirstStart(exact)])
       ELSE IF partial # {} THEN summary_boundary = VerticalExtent(spans[FirstStart(partial)])
       ELSE summary_boundary = None

(***************************************************************************)
(* C15: the position score of every bounding box lies in [0, 1], also for  *)
(* x0 > 612, y0 > 792 or negative coordinates, and is 0.5 for a malformed  *)
(* bounding box.  A score s is the integer s * PosDen.                     *)
(* Refuted: the score is not clamped.                                      *)
(***************************************************************************)
C15_PositionScoreInUnitInterval ==
  ps # Idle =>
    /\ 0 <= ps.position_score /\ ps.position_score <= PosDen
    /\ Len(ps.bbox) # 4 => 2 * ps.position_score = PosDen

(***************************************************************************)
(* C16: the zip-code rule and the phone-number rule never decide: the      *)
(* validator answers as it would without them, that is, it accepts exactly *)
(* when the length is in 6..8, the value is at least 100000, the digits    *)
(* are not date-shaped and the trimmed context has at most 50 characters;  *)
(* a number either rule is about is already rejected for its length.       *)
(***************************************************************************)
\* the value of a string of digits, for the ranges of the zip rule
ValueOf(n) ==
  LET v[k \in 0..Len(n)] == IF k = 0 THEN 0 ELSE 10 * v[k - 1] + DigitVal(n[k])
  IN v[Len(n)]
ZipShaped(n) ==
  \/ Len(n) = 5 /\ ValueOf(n) \in 501..99950
  \/ Len(n) = 9 /\ ValueOf(n) \in 50100000..999509999
PhoneShaped(n) == Len(n) \in {10, 11} /\ DigitVal(n[1]) \in {0, 1}

\* the validator without lines 192-194 and 200-202
WithoutZipAndPhoneRules(n, c) ==
  IF Len(n) < 6 \/ Len(n) > 8 THEN FALSE
  ELSE IF ValueOf(n) < 100000 THEN FALSE
  ELSE IF DateShaped(n) THEN FALSE
  ELSE IF TrimmedLength(c) > 50 THEN FALSE
  ELSE TRUE

C16_ZipAndPhoneRulesNeverDecide ==
  val # Idle =>
    /\ val.accepted = WithoutZipAndPhoneRules(val.number, val.context_text)
    /\ (ZipShaped(val.number) \/ PhoneShaped(val.number))
         => ~val.accepted /\ Len(val.number) \notin 6..8

\* a nine-digit zip code in a short context
C16_Witness ==
  /\ val # Idle
  /\ val.number = <<"9", "0", "2", "1", "0", "1", "2", "3", "4">>
  /\ ZipShaped(val.number)
  /\ val.context_text = C_empty
  /\ ~val.accepted

(***************************************************************************)
(* C17: on every page text the two flat-text extractors agree:             *)
(* extract_tsp_id_smart (all word-bounded runs of digits, the first of     *)
(* length 6) and the first match of the word-bounded six-digit pattern of  *)
(* working_pdf_processor.main return the same identifier, or both none.    *)
(***************************************************************************)
C17_FlatTextExtractorsAgree ==
  ft # Idle => ft.smart = ft.simple

\* nine digits and six digits glued to a letter come before an amount whose
\* integer part has six digits
C17_Witness ==
  /\ ft # Idle
  /\ ft.page_text = JoinWords(<<W_nine, W_glued, W_money>>)
  /\ ft.smart = <<"1", "2", "3", "4", "5", "6">>
  /\ ft.simple = <<"1", "2", "3", "4", "5", "6">>

====
